---- MODULE Spec2Model ----
(***************************************************************************)
(* Model of the agent orchestrator (services/agentService.js, with the     *)
(* model glue of services/geminiService.js) and of the drive ingestion     *)
(* pipeline (services/driveIngestionService.js, latest variant).           *)
(***************************************************************************)
EXTENDS Integers, Sequences, FiniteSets, TLC

\* ---------------------------------------------------------------- bounds
\* largest maxIterations argument explored
MaxIter == 3
\* most tool calls the model emits in one response
MaxCalls == 2
\* most tool calls the model emits over one run
MaxTotalCalls == 3
\* largest number of rows a search returns
MaxCount == 1
\* most tool calls lacking a required parameter the model emits over one run
MaxIncomplete == 1

\* ------------------------------------------------------- agent: the tools
ToolNames == {"searchDocuments", "sendEmail", "getDocumentStats", "summarizeDocument"}

\* a tool name the registry does not hold
UnknownTool == "unknownTool"

\* "count" of a result that has no count field (undefined in the source)
NoCount == 0 - 1

\* the records a tool's invoker can return when it does not throw
ToolResults(name) ==
  CASE name = "searchDocuments" ->
         {[success |-> TRUE, count |-> c, sentEmail |-> FALSE] : c \in 0..MaxCount}
    [] name = "sendEmail" ->
         {[success |-> TRUE, count |-> NoCount, sentEmail |-> TRUE]}
    [] name = "getDocumentStats" ->
         {[success |-> TRUE, count |-> NoCount, sentEmail |-> FALSE]}
    [] name = "summarizeDocument" ->
         {[success |-> b, count |-> NoCount, sentEmail |-> FALSE] : b \in BOOLEAN}
    [] OTHER -> {}

\* the shapes the parameters of a call can have with respect to the "required"
\* list of the tool's declared schema
ParameterShapes(name) ==
  IF name \in {"searchDocuments", "sendEmail", "summarizeDocument"}
  THEN {"complete", "missingRequired"}
  ELSE {"complete"}

\* what the invoker returns, when it does not throw, for a call's parameters:
\* searchDocuments without query always throws (no embedding of undefined)
InvokerResults(call) ==
  IF call.name = "searchDocuments" /\ call.parameters = "missingRequired"
  THEN {}
  ELSE ToolResults(call.name)

\* the directive appended to a successful tool result ("" when none applies)
Instruction(name, result) ==
  IF name = "searchDocuments" /\ result.count > 0 THEN "found"
  ELSE IF name = "searchDocuments" /\ result.count = 0 THEN "notFound"
  ELSE IF name = "summarizeDocument" /\ result.success THEN "summarized"
  ELSE IF name = "sendEmail" /\ result.success THEN "emailSent"
  ELSE ""

\* content of a tool-result turn: JSON.stringify(payload) + instruction
ResultContent(name, result) ==
  [payload |-> <<"result", result>>, instruction |-> Instruction(name, result)]

ErrorContent ==
  [payload |-> <<"error", "message">>, instruction |-> ""]

ResultTurn(name, result) ==
  [role |-> "function", name |-> name, content |-> ResultContent(name, result)]

ErrorTurn(name) ==
  [role |-> "function", name |-> name, content |-> ErrorContent]

\* JSON.parse accepts a serialized value only when no text follows it
JSONParses(content) == content.instruction = ""

\* ------------------------------------------------- agent: chatWithHistory
\* the tool-calling mode chatWithHistory configures; options.forceToolUse is
\* never read
FunctionCallingMode(hasTools, forceToolUse) ==
  IF hasTools THEN "ANY" ELSE "AUTO"

\* conversion of messages[0 .. n-2] to model history
HistoryConverts(messages) ==
  \A i \in 1..(Len(messages) - 1) :
     messages[i].role = "function" => JSONParses(messages[i].content)

\* what the model can answer: tool calls (known or unknown names) or a text,
\* possibly empty
SeqsUpTo(S, n) == UNION {[1..k -> S] : k \in 1..n}

NoText == "undefined"

\* the tool calls {name, parameters} the model can emit
EmittableCalls ==
  UNION {{[name |-> n, parameters |-> p] : p \in ParameterShapes(n)} :
           n \in ToolNames \cup {UnknownTool}}

Incomplete(calls) ==
  Len(SelectSeq(calls, LAMBDA c : c.parameters = "missingRequired"))

ModelResponses(budget, incompleteBudget) ==
  {[toolCalls |-> tc, text |-> NoText] :
      tc \in {s \in SeqsUpTo(EmittableCalls, budget) :
                 Incomplete(s) <= incompleteBudget}}
  \cup {[toolCalls |-> <<>>, text |-> t] : t \in {"final text", ""}}

\* ---------------------------------------------------- agent: executeTask
VARIABLES
  pc,                  \* position of executeTask
  userPromptValid,     \* whether userPrompt is a non-blank string
  maxIterations,
  iterations,
  conversationHistory,
  toolCalls,
  validToolCalls,      \* the calls of the current response still to execute
  current,             \* the tool call being awaited, or NoCall
  modelCalls,          \* one record per chatWithHistory call
  responses,           \* one record per model response
  events,              \* start/finish of model and tool calls, in order
  result,              \* the returned value, or NoResult
  error,               \* the raised error, or NoError
  cancelled,           \* whether the caller has given up on the request
  incompleteLeft       \* tool calls lacking a required parameter the model
                       \* may still emit

agentVars == <<pc, userPromptValid, maxIterations, iterations, conversationHistory,
               toolCalls, validToolCalls, current, modelCalls, responses, events,
               result, error, cancelled, incompleteLeft>>

VARIABLES
  drive,           \* file id -> modifiedTime in the drive (Absent: not there)
  store,           \* document id -> metadata.modifiedTime in the collection
  pendingDeletes,  \* delete requests issued and not yet carried out
  cache,           \* the SyncCacheRecord file
  runsStarted,
  run              \* per invoker: the locals of its ingestDriveFolder call

syncVars == <<drive, store, pendingDeletes, cache, runsStarted, run>>

VARIABLES
  summarize,       \* one call of the summarizeDocument invoker
  cacheFile,       \* the cache file on disk and one saveCache / loadCache
  listing          \* one call of listAllFilesIteratively

VARIABLES
  searching,       \* one call of search on the vector store
  collectionOps,   \* the collection and one addMany / reset with its read-back
  fileTask         \* the temp directory and the files of one batch

storeVars == <<searching, collectionOps, fileTask>>

auxVars == <<summarize, cacheFile, listing, storeVars>>

vars == <<agentVars, syncVars, auxVars>>

NoCall == [name |-> "none", parameters |-> "none"]
\* the third component of the events of a model call
ModelCall == [name |-> "model", parameters |-> "none"]
NoResult == [success |-> FALSE]
NoError == [code |-> "none"]

AppError(message, statusCode, code) ==
  [message |-> message, statusCode |-> statusCode, code |-> code]

SystemTurn == [role |-> "system", name |-> "", content |-> "policy"]
UserTurn == [role |-> "user", name |-> "", content |-> "userPrompt"]

AgentStart ==
  /\ pc = "start"
  /\ userPromptValid \in BOOLEAN
  /\ maxIterations \in 0..MaxIter
  /\ iterations = 0
  /\ conversationHistory = <<>>
  /\ toolCalls = <<>>
  /\ validToolCalls = <<>>
  /\ current = NoCall
  /\ modelCalls = <<>>
  /\ responses = <<>>
  /\ events = <<>>
  /\ result = NoResult
  /\ error = NoError
  /\ cancelled = FALSE
  /\ incompleteLeft \in {0, MaxIncomplete}

\* the model keeps to the declared parameter schemas
AgentInit ==
  /\ AgentStart
  /\ incompleteLeft = 0

\* forceTools of the loop body
ForceTools(calls) == Len(calls) = 0

\* a loop condition that lets one iteration too many through
LoopContinuesInclusive(iters, maxIters) == iters <= maxIters

\* the loop condition of executeTask
LoopContinues(iters, maxIters) == iters < maxIters

\* a filter that lets every call through
FilterKnownKeepsAll(calls) == calls

\* the filter that keeps the calls whose name is registered
RECURSIVE FilterKnown(_)
FilterKnown(calls) ==
  IF calls = <<>> THEN <<>>
  ELSE IF Head(calls).name \in ToolNames
       THEN <<Head(calls)>> \o FilterKnown(Tail(calls))
       ELSE FilterKnown(Tail(calls))

\* number of tool calls the model has emitted so far in the run
RECURSIVE Emitted(_)
Emitted(resps) ==
  IF resps = <<>> THEN 0
  ELSE Len(Head(resps).toolCalls) + Emitted(Tail(resps))

Min(a, b) == IF a < b THEN a ELSE b

\* an answer that looks at the sent emails before the summaries
BuildAnswerEmailsFirst(text, calls) ==
  LET searchResults == \E i \in 1..Len(calls) :
                          calls[i].tool = "searchDocuments" /\ calls[i].result.count > 0
      summaries == \E i \in 1..Len(calls) :
                          calls[i].tool = "summarizeDocument" /\ calls[i].result.success
      sentEmails == \E i \in 1..Len(calls) :
                          calls[i].tool = "sendEmail" /\ calls[i].result.sentEmail
  IN  IF searchResults THEN [text |-> text, appended |-> "searchResults"]
      ELSE IF sentEmails THEN [text |-> text, appended |-> "sentEmails"]
      ELSE IF summaries THEN [text |-> text, appended |-> "summaries"]
      ELSE [text |-> text, appended |-> "nothing"]

\* the answer built from the model text and the recorded tool calls
BuildAnswer(text, calls) ==
  LET searchResults == \E i \in 1..Len(calls) :
                          calls[i].tool = "searchDocuments" /\ calls[i].result.count > 0
      summaries == \E i \in 1..Len(calls) :
                          calls[i].tool = "summarizeDocument" /\ calls[i].result.success
      sentEmails == \E i \in 1..Len(calls) :
                          calls[i].tool = "sendEmail" /\ calls[i].result.sentEmail
  IN  IF searchResults THEN [text |-> text, appended |-> "searchResults"]
      ELSE IF summaries THEN [text |-> text, appended |-> "summaries"]
      ELSE IF sentEmails THEN [text |-> text, appended |-> "sentEmails"]
      ELSE [text |-> text, appended |-> "nothing"]

\* input validation and construction of the conversation
Validate ==
  /\ pc = "start"
  /\ IF userPromptValid
     THEN /\ conversationHistory' = <<SystemTurn, UserTurn>>
          /\ pc' = "loop"
          /\ error' = error
     ELSE /\ error' = AppError("Valid prompt is required", 400, "BAD_REQUEST")
          /\ pc' = "failed"
          /\ conversationHistory' = conversationHistory
  /\ UNCHANGED <<cancelled, incompleteLeft>>
  /\ UNCHANGED <<userPromptValid, maxIterations, iterations, toolCalls, validToolCalls,
                 current, modelCalls, responses, events, result>>
  /\ UNCHANGED <<syncVars, auxVars>>

\* loop head and the start of chatWithHistory, up to the await of sendMessage
CallModel ==
  /\ pc = "loop"
  /\ LoopContinues(iterations, maxIterations)
  /\ iterations' = iterations + 1
  /\ modelCalls' = Append(modelCalls,
                     [iteration |-> iterations + 1,
                      forceToolUse |-> ForceTools(toolCalls),
                      mode |-> FunctionCallingMode(TRUE, ForceTools(toolCalls))])
  /\ events' = Append(events, <<"modelStart", iterations + 1, ModelCall>>)
  /\ IF HistoryConverts(conversationHistory)
     THEN /\ pc' = "calling"
          /\ error' = error
     ELSE /\ pc' = "failed"
          /\ error' = AppError("Gemini API error", 500, "INTERNAL_ERROR")
  /\ UNCHANGED <<cancelled, incompleteLeft>>
  /\ UNCHANGED <<userPromptValid, maxIterations, conversationHistory, toolCalls,
                 validToolCalls, current, responses, result>>
  /\ UNCHANGED <<syncVars, auxVars>>

\* the loop ends without an answer
MaxIterationsReached ==
  /\ pc = "loop"
  /\ ~LoopContinues(iterations, maxIterations)
  /\ pc' = "failed"
  /\ error' = AppError("Task too complex, reached maximum tool usage limit", 400,
                       "BAD_REQUEST")
  /\ UNCHANGED <<cancelled, incompleteLeft>>
  /\ UNCHANGED <<userPromptValid, maxIterations, iterations, conversationHistory,
                 toolCalls, validToolCalls, current, modelCalls, responses, events,
                 result>>
  /\ UNCHANGED <<syncVars, auxVars>>

\* the model call fails (network, quota, a rejected history)
ModelThrows ==
  /\ pc = "calling"
  /\ pc' = "failed"
  /\ error' = AppError("Gemini API error", 500, "INTERNAL_ERROR")
  /\ events' = Append(events, <<"modelEnd", iterations, ModelCall>>)
  /\ UNCHANGED <<cancelled, incompleteLeft>>
  /\ UNCHANGED <<userPromptValid, maxIterations, iterations, conversationHistory,
                 toolCalls, validToolCalls, current, modelCalls, responses, result>>
  /\ UNCHANGED <<syncVars, auxVars>>

\* the model answers and executeTask dispatches on the response
ModelReturns ==
  /\ pc = "calling"
  /\ \E response \in ModelResponses(Min(MaxCalls, MaxTotalCalls - Emitted(responses)),
                                     incompleteLeft) :
       /\ responses' = Append(responses, response)
       /\ incompleteLeft' = incompleteLeft - Incomplete(response.toolCalls)
       /\ events' = Append(events, <<"modelEnd", iterations, ModelCall>>)
       /\ IF Len(response.toolCalls) > 0
          THEN /\ validToolCalls' = FilterKnown(response.toolCalls)
               /\ pc' = IF FilterKnown(response.toolCalls) = <<>> THEN "loop" ELSE "tools"
               /\ UNCHANGED <<result, error>>
          ELSE IF response.text \notin {NoText, ""}
          THEN /\ result' = [success |-> TRUE,
                             answer |-> BuildAnswer(response.text, toolCalls),
                             toolCalls |-> toolCalls,
                             iterations |-> iterations]
               /\ pc' = "returned"
               /\ UNCHANGED <<validToolCalls, error>>
          ELSE /\ error' = AppError("Agent did not provide a response", 500,
                                    "INTERNAL_ERROR")
               /\ pc' = "failed"
               /\ UNCHANGED <<validToolCalls, result>>
  /\ UNCHANGED <<cancelled, userPromptValid, maxIterations, iterations,
                 conversationHistory, toolCalls, current, modelCalls>>
  /\ UNCHANGED <<syncVars, auxVars>>

\* tool calls started without awaiting the one before
MayStartToolUnawaited(cur) == TRUE

\* whether the loop over the valid tool calls may start its next call: each
\* invoker is awaited before the next is called
MayStartTool(cur) == cur = NoCall

\* the invoker of the next valid tool call is called
StartTool ==
  /\ pc = "tools"
  /\ validToolCalls # <<>>
  /\ MayStartTool(current)
  /\ current' = Head(validToolCalls)
  /\ validToolCalls' = Tail(validToolCalls)
  /\ events' = Append(events, <<"toolStart", iterations, Head(validToolCalls)>>)
  /\ pc' = "tools"
  /\ UNCHANGED <<cancelled, incompleteLeft>>
  /\ UNCHANGED <<userPromptValid, maxIterations, iterations, conversationHistory,
                 toolCalls, modelCalls, responses, result, error>>
  /\ UNCHANGED <<syncVars, auxVars>>

\* where the loop over the valid tool calls goes after one call
AfterTool(rest) == IF rest = <<>> THEN "loop" ELSE "tools"

\* the invoker returns: the call is recorded and its result becomes a turn
ToolReturns ==
  /\ pc = "tools"
  /\ current # NoCall
  /\ \E r \in InvokerResults(current) :
       /\ toolCalls' = Append(toolCalls, [tool |-> current.name,
                                          parameters |-> current.parameters,
                                          result |-> r])
       /\ conversationHistory' = Append(conversationHistory, ResultTurn(current.name, r))
  /\ events' = Append(events, <<"toolEnd", iterations, current>>)
  /\ current' = NoCall
  /\ pc' = AfterTool(validToolCalls)
  /\ UNCHANGED <<cancelled, incompleteLeft>>
  /\ UNCHANGED <<userPromptValid, maxIterations, iterations, validToolCalls,
                 modelCalls, responses, result, error>>
  /\ UNCHANGED <<syncVars, auxVars>>

\* a catch block that rethrows
CatchToolRethrows(rest) == "failed"

\* what the catch block of the tool loop does with the position
CatchTool(rest) == AfterTool(rest)

\* the invoker throws: the catch block appends an error turn
ToolThrows ==
  /\ pc = "tools"
  /\ current # NoCall
  /\ conversationHistory' = Append(conversationHistory, ErrorTurn(current.name))
  /\ events' = Append(events, <<"toolThrow", iterations, current>>)
  /\ current' = NoCall
  /\ pc' = CatchTool(validToolCalls)
  /\ UNCHANGED <<cancelled, incompleteLeft>>
  /\ UNCHANGED <<userPromptValid, maxIterations, iterations, toolCalls, validToolCalls,
                 modelCalls, responses, result, error>>
  /\ UNCHANGED <<syncVars, auxVars>>


\* ------------------------------------------------ ingestion: environment
\* largest modifiedTime of a drive file
MaxTime == 2
\* most ingestDriveFolder runs started
MaxRuns == 2

\* the files the drive folder tree can hold, in listing order
FileOrder == <<"F", "G", "H">>
Files == {FileOrder[i] : i \in 1..Len(FileOrder)}

\* modifiedTime of a file that is not there
Absent == 0

\* who invokes ingestDriveFolder: the cron firing, and the run on
\* initialisation (or a direct call)
Runners == {"cron", "init"}

\* loadCache when the file is absent
DefaultCache == [lastSyncTime |-> 0, fileCount |-> 0]

IdleRun ==
  [pc |-> "idle", syncStartTime |-> 0, driveFiles |-> <<>>,
   existingDocs |-> [f \in Files |-> Absent], filesToProcess |-> <<>>,
   processedCount |-> 0, failedCount |-> 0, skippedCount |-> 0,
   addCalls |-> 0, deleteCalls |-> 0, runNo |-> 0,
   previous |-> [returned |-> FALSE, addCalls |-> 0, deleteCalls |-> 0]]

\* the modifiedTime a stored document starts with: none, the oldest or the
\* newest
StoredTimes == {Absent, 1, MaxTime}

SyncInit ==
  /\ drive \in [Files -> 0..MaxTime]
  /\ store \in [Files -> StoredTimes]
  /\ pendingDeletes = {}
  /\ cache = DefaultCache
  /\ runsStarted = 0
  /\ run = [r \in Runners |-> IdleRun]

\* the ingestion at rest, for the behaviours of the agent alone
SyncIdle ==
  /\ drive = [f \in Files |-> Absent]
  /\ store = [f \in Files |-> Absent]
  /\ pendingDeletes = {}
  /\ cache = DefaultCache
  /\ runsStarted = 0
  /\ run = [r \in Runners |-> IdleRun]

\* the agent at rest, for the behaviours of the ingestion alone
AgentIdle ==
  /\ AgentInit
  /\ userPromptValid = FALSE
  /\ maxIterations = 0

\* listAllFilesIteratively: the files of the folder tree
Listing(d) ==
  LET present == SelectSeq(FileOrder, LAMBDA f : d[f] # Absent)
  IN  [i \in 1..Len(present) |-> [id |-> present[i], modifiedTime |-> d[present[i]]]]

ListedIds(driveFiles) == {driveFiles[i].id : i \in 1..Len(driveFiles)}

\* a comparison that takes every stored file for modified
IsModifiedAlways(existingTime, fileTime) == TRUE

\* the comparison that classifies a stored file as modified
IsModified(existingTime, fileTime) == existingTime # fileTime

ToAdd(driveFiles, existing) ==
  SelectSeq(driveFiles, LAMBDA file : existing[file.id] = Absent)

ToUpdate(driveFiles, existing) ==
  SelectSeq(driveFiles, LAMBDA file :
     existing[file.id] # Absent /\ IsModified(existing[file.id], file.modifiedTime))

ToDelete(driveFiles, existing) ==
  {f \in Files : existing[f] # Absent /\ f \notin ListedIds(driveFiles)}

\* collection.delete
Deleted(docs, ids) == [f \in Files |-> IF f \in ids THEN Absent ELSE docs[f]]

\* saveCache
SavedCache(syncStartTime, driveFiles) ==
  [lastSyncTime |-> syncStartTime, fileCount |-> Len(driveFiles)]

InProgress(r) == run[r].pc \in {"listing", "gettingAll", "deleting", "processing"}

\* ------------------------------------------- ingestion: ingestDriveFolder
\* entry: syncStartTime, loadCache, and the call of listAllFilesIteratively
Begin(r) ==
  /\ run[r].pc \in {"idle", "returned", "threw"}
  /\ runsStarted < MaxRuns
  /\ runsStarted' = runsStarted + 1
  /\ run' = [run EXCEPT ![r] =
       [IdleRun EXCEPT !.pc = "listing",
                       !.syncStartTime = runsStarted + 1,
                       !.runNo = run[r].runNo + 1,
                       !.previous = [returned |-> run[r].pc = "returned",
                                     addCalls |-> run[r].addCalls,
                                     deleteCalls |-> run[r].deleteCalls]]]
  /\ UNCHANGED <<drive, store, pendingDeletes, cache>>
  /\ UNCHANGED <<agentVars, auxVars>>

\* the listing arrives; getAll is called
Listed(r) ==
  /\ run[r].pc = "listing"
  /\ run' = [run EXCEPT ![r].driveFiles = Listing(drive), ![r].pc = "gettingAll"]
  /\ UNCHANGED <<drive, store, pendingDeletes, cache, runsStarted>>
  /\ UNCHANGED <<agentVars, auxVars>>

\* the listing arrives without the files of the folders whose listing
\* failed and was skipped, or that the folder limit cut off
ListedPartly(r) ==
  /\ run[r].pc = "listing"
  /\ \E lost \in (SUBSET Files) \ {{}} :
       run' = [run EXCEPT
         ![r].driveFiles = Listing([f \in Files |-> IF f \in lost THEN Absent
                                                   ELSE drive[f]]),
         ![r].pc = "gettingAll"]
  /\ UNCHANGED <<drive, store, pendingDeletes, cache, runsStarted>>
  /\ UNCHANGED <<agentVars, auxVars>>

\* getAll fails: the run throws
GetAllThrows(r) ==
  /\ run[r].pc = "gettingAll"
  /\ run' = [run EXCEPT ![r].pc = "threw"]
  /\ UNCHANGED <<drive, store, pendingDeletes, cache, runsStarted>>
  /\ UNCHANGED <<agentVars, auxVars>>

\* the part of the run from the deletion of the old versions of the updated
\* files (a deleteMany that is not awaited) to the start of the batches, or
\* to the final saveCache when there is no file to process
StartBatches(r, existing, deleteCalls) ==
  LET files == run[r].driveFiles
      toAdd == ToAdd(files, existing)
      toUpdate == ToUpdate(files, existing)
      updateIds == ListedIds(toUpdate)
      work == toAdd \o toUpdate
  IN  /\ pendingDeletes' = IF toUpdate # <<>> THEN pendingDeletes \cup {updateIds}
                           ELSE pendingDeletes
      /\ run' = [run EXCEPT ![r].existingDocs = existing,
                            ![r].filesToProcess = work,
                            ![r].deleteCalls = deleteCalls
                                 + (IF toUpdate # <<>> THEN 1 ELSE 0),
                            ![r].pc = IF work = <<>> THEN "returned" ELSE "processing"]
      /\ cache' = IF work = <<>> THEN SavedCache(run[r].syncStartTime, files)
                  ELSE cache

\* getAll returns: the three work sets are computed
GotAll(r) ==
  /\ run[r].pc = "gettingAll"
  /\ LET files == run[r].driveFiles
         toAdd == ToAdd(files, store)
         toUpdate == ToUpdate(files, store)
         toDelete == ToDelete(files, store)
     IN  IF toAdd = <<>> /\ toUpdate = <<>> /\ toDelete = {}
         THEN /\ cache' = SavedCache(run[r].syncStartTime, files)
              /\ run' = [run EXCEPT ![r].existingDocs = store, ![r].pc = "returned"]
              /\ UNCHANGED <<store, pendingDeletes>>
         ELSE IF toDelete # {}
         THEN /\ run' = [run EXCEPT ![r].existingDocs = store,
                                    ![r].deleteCalls = 1,
                                    ![r].pc = "deleting"]
              /\ UNCHANGED <<store, pendingDeletes, cache>>
         ELSE /\ StartBatches(r, store, 0)
              /\ UNCHANGED store
  /\ UNCHANGED <<drive, runsStarted>>
  /\ UNCHANGED <<agentVars, auxVars>>

\* the awaited deleteMany(toDelete) returns
DeleteReturns(r) ==
  /\ run[r].pc = "deleting"
  /\ store' = Deleted(store, ToDelete(run[r].driveFiles, run[r].existingDocs))
  /\ StartBatches(r, run[r].existingDocs, run[r].deleteCalls)
  /\ UNCHANGED <<drive, runsStarted>>
  /\ UNCHANGED <<agentVars, auxVars>>

\* the awaited deleteMany(toDelete) fails: the run throws
DeleteThrows(r) ==
  /\ run[r].pc = "deleting"
  /\ run' = [run EXCEPT ![r].pc = "threw"]
  /\ UNCHANGED <<drive, store, pendingDeletes, cache, runsStarted>>
  /\ UNCHANGED <<agentVars, auxVars>>

\* a delete request that was not awaited is carried out by the backend
DeleteLands ==
  /\ \E ids \in pendingDeletes :
       /\ store' = Deleted(store, ids)
       /\ pendingDeletes' = pendingDeletes \ {ids}
  /\ UNCHANGED <<drive, cache, runsStarted, run>>
  /\ UNCHANGED <<agentVars, auxVars>>

\* collection.add of one document: an id the collection already holds is
\* not replaced
Added(docs, file) ==
  IF docs[file.id] = Absent
  THEN [docs EXCEPT ![file.id] = file.modifiedTime]
  ELSE docs

\* a per-file catch block that lets the exception end the run
CatchFileAborts(rest) == "threw"

\* where the run goes after the per-file catch block counted a failure
CatchFile(rest) == IF rest = <<>> THEN "returned" ELSE "processing"

\* one file of a batch: download, extraction, addMany and the removal of
\* the temporary file (whose failure is caught as the others are, after the
\* file was counted as indexed or skipped), with the final saveCache when it
\* was the last file
ProcessFile(r) ==
  /\ run[r].pc = "processing"
  /\ run[r].filesToProcess # <<>>
  /\ LET file == Head(run[r].filesToProcess)
         rest == Tail(run[r].filesToProcess)
         next == IF rest = <<>> THEN "returned" ELSE "processing"
     IN  /\ \E outcome \in {"failed", "empty", "addThrows", "added",
                             "emptyCleanupThrows", "addedCleanupThrows"} :
              CASE outcome = "failed" ->
                     /\ run' = [run EXCEPT ![r].failedCount = @ + 1,
                                           ![r].filesToProcess = rest,
                                           ![r].pc = CatchFile(rest)]
                     /\ store' = store
                [] outcome = "empty" ->
                     /\ run' = [run EXCEPT ![r].skippedCount = @ + 1,
                                           ![r].filesToProcess = rest,
                                           ![r].pc = next]
                     /\ store' = store
                [] outcome = "addThrows" ->
                     /\ run' = [run EXCEPT ![r].failedCount = @ + 1,
                                           ![r].addCalls = @ + 1,
                                           ![r].filesToProcess = rest,
                                           ![r].pc = CatchFile(rest)]
                     /\ store' = store
                [] outcome = "added" ->
                     /\ run' = [run EXCEPT ![r].processedCount = @ + 1,
                                           ![r].addCalls = @ + 1,
                                           ![r].filesToProcess = rest,
                                           ![r].pc = next]
                     /\ store' = Added(store, file)
                [] outcome = "emptyCleanupThrows" ->
                     /\ run' = [run EXCEPT ![r].skippedCount = @ + 1,
                                           ![r].failedCount = @ + 1,
                                           ![r].filesToProcess = rest,
                                           ![r].pc = CatchFile(rest)]
                     /\ store' = store
                [] outcome = "addedCleanupThrows" ->
                     /\ run' = [run EXCEPT ![r].processedCount = @ + 1,
                                           ![r].failedCount = @ + 1,
                                           ![r].addCalls = @ + 1,
                                           ![r].filesToProcess = rest,
                                           ![r].pc = CatchFile(rest)]
                     /\ store' = Added(store, file)
         /\ cache' = IF rest = <<>>
                     THEN SavedCache(run[r].syncStartTime, run[r].driveFiles)
                     ELSE cache
  /\ UNCHANGED <<drive, pendingDeletes, runsStarted>>
  /\ UNCHANGED <<agentVars, auxVars>>

\* the runs of one invoker at a time
SyncNext ==
  \/ Begin("cron")
  \/ Listed("cron")
  \/ GetAllThrows("cron")
  \/ GotAll("cron")
  \/ DeleteReturns("cron")
  \/ DeleteThrows("cron")
  \/ ProcessFile("cron")
  \/ DeleteLands

\* the runs of every invoker, as the scheduler lets them overlap
OverlapNext ==
  \/ \E r \in Runners : Begin(r)
  \/ \E r \in Runners : Listed(r)
  \/ \E r \in Runners : GetAllThrows(r)
  \/ \E r \in Runners : GotAll(r)
  \/ \E r \in Runners : DeleteReturns(r)
  \/ \E r \in Runners : DeleteThrows(r)
  \/ \E r \in Runners : ProcessFile(r)
  \/ DeleteLands

\* ------------------------------------------------- agent: cancellation
\* the caller of executeTask gives up on the request (the client goes away,
\* a deadline passes) while a model call or a tool call is awaited;
\* executeTask takes no signal and no action of it reads the flag
Cancel ==
  /\ ~cancelled
  /\ pc = "calling" \/ (pc = "tools" /\ current # NoCall)
  /\ cancelled' = TRUE
  /\ UNCHANGED <<pc, incompleteLeft, userPromptValid, maxIterations, iterations,
                 conversationHistory, toolCalls, validToolCalls, current, modelCalls,
                 responses, events, result, error>>
  /\ UNCHANGED <<syncVars, auxVars>>

\* ------------------------------------------------ vector store: search
\* most documents the collection holds
MaxDocs == 2
\* largest distance of a document to the query
MaxDistance == 2

\* a file name or a word of a text, as base and extension
Word(base, ext) == [base |-> base, ext |-> ext]

\* the extensions the invoker of summarizeDocument strips
StrippedExtensions == {".pdf", ".doc", ".docx", ".xls", ".xlsx", ".txt", ".ppt", ".pptx"}

\* documentName.replace(/\.(pdf|docx?|xlsx?|txt|pptx?)$/i, '')
StripExtension(name) ==
  IF name.ext \in StrippedExtensions THEN Word(name.base, "") ELSE name

\* word.includes(keyword)
Includes(word, keyword) ==
  /\ word.base = keyword.base
  /\ keyword.ext = "" \/ keyword.ext = word.ext

\* number of occurrences of the keyword in a text
KeywordCount(text, keyword) ==
  Len(SelectSeq(text, LAMBDA w : Includes(w, keyword)))

\* keyword = null, maxDistance = null
NoKeyword == Word("", "")
NoDistance == 0 - 1
NoFilter == [name |-> NoKeyword]

TakeAll(seq, n) == seq

\* seq.slice(0, n)
Take(seq, n) == SubSeq(seq, 1, Min(n, Len(seq)))

WithinDistanceAlways(doc, maxDistance) == TRUE

\* the distance gate: doc.distance <= maxDistance
WithinDistance(doc, maxDistance) == doc.distance <= maxDistance

BeforeByDistanceOnly(a, b, keyword) == a.distance < b.distance

\* the comparator of the sort after the keyword filter: more occurrences
\* first, then the smaller distance
Before(a, b, keyword) ==
  \/ KeywordCount(a.text, keyword) > KeywordCount(b.text, keyword)
  \/ /\ KeywordCount(a.text, keyword) = KeywordCount(b.text, keyword)
     /\ a.distance < b.distance

\* one step of the stable sort: d goes before the first element it precedes
InsertSorted(d, sorted, keyword) ==
  LET firstAfter == {i \in 1..Len(sorted) : Before(d, sorted[i], keyword)}
      at == IF firstAfter = {} THEN Len(sorted) + 1
            ELSE CHOOSE i \in firstAfter : \A j \in firstAfter : i <= j
  IN  SubSeq(sorted, 1, at - 1) \o <<d>> \o SubSeq(sorted, at, Len(sorted))

RECURSIVE SortByRelevance(_, _)
SortByRelevance(docs, keyword) ==
  IF docs = <<>> THEN <<>>
  ELSE InsertSorted(docs[Len(docs)],
                    SortByRelevance(SubSeq(docs, 1, Len(docs) - 1), keyword), keyword)

\* search(query, nResults, keyword, maxDistance) over a collection given in
\* the order of distance to the query, as collection.query returns it; a
\* fifth argument is not a parameter of search and is dropped
Search(coll, nResults, keyword, maxDistance, ignored) ==
  LET queried == Take(coll, IF keyword # NoKeyword THEN nResults * 3 ELSE nResults)
      byKeyword == IF keyword # NoKeyword
                   THEN SortByRelevance(
                          SelectSeq(queried, LAMBDA d : KeywordCount(d.text, keyword) > 0),
                          keyword)
                   ELSE queried
      byDistance == IF maxDistance # NoDistance
                    THEN SelectSeq(byKeyword, LAMBDA d : WithinDistance(d, maxDistance))
                    ELSE byKeyword
  IN  Take(byDistance, nResults)

\* ------------------------------------- agent: the summarizeDocument tool
\* the names files are stored under, the texts they hold, and the names
\* the model asks for
DocNames == {Word("a", ".pdf"), Word("b", ".pdf")}
Texts == {<<>>, <<Word("b", "")>>, <<Word("a", "")>>, <<Word("a", ""), Word("a", ".pdf")>>}
RequestedNames == {Word("a", ".pdf"), Word("a", ".csv")}

\* the collections, each in the order of distance to the query
Collections ==
  LET bodies == [name : DocNames, text : Texts, distance : 0..MaxDistance]
      ordered(k) == {c \in [1..k -> bodies] :
                       \A i \in 1..(k - 1) : c[i].distance <= c[i + 1].distance}
  IN  UNION {{[i \in 1..k |-> [id |-> i, name |-> c[i].name, text |-> c[i].text,
                               distance |-> c[i].distance]] : c \in ordered(k)} :
               k \in 0..MaxDocs}

\* id of no document
NoDocument == 0 - 1

NoSummary == [success |-> FALSE, message |-> "none", document |-> NoDocument]

IdleSummarize ==
  [pc |-> "idle", collection |-> <<>>, documentName |-> NoKeyword,
   searchResults |-> <<>>, result |-> NoSummary]

SummarizeInit ==
  summarize \in {[IdleSummarize EXCEPT !.pc = "start", !.collection = c,
                                       !.documentName = n] :
                   c \in Collections, n \in RequestedNames}

\* the first search: by the name without extension, with a metadata filter
\* as fifth argument
SummarizeExactSearch ==
  /\ summarize.pc = "start"
  /\ summarize' = [summarize EXCEPT
       !.searchResults = Search(summarize.collection, 5, NoKeyword, NoDistance,
                                [name |-> summarize.documentName]),
       !.pc = "searched"]
  /\ UNCHANGED <<cacheFile, listing>>
  /\ UNCHANGED <<agentVars, syncVars, storeVars>>

\* no result: the second search, with the name without extension as keyword
SummarizeKeywordSearch ==
  /\ summarize.pc = "searched"
  /\ summarize.searchResults = <<>>
  /\ summarize' = [summarize EXCEPT
       !.searchResults = Search(summarize.collection, 5,
                                StripExtension(summarize.documentName), NoDistance,
                                NoFilter),
       !.pc = "searchedByKeyword"]
  /\ UNCHANGED <<cacheFile, listing>>
  /\ UNCHANGED <<agentVars, syncVars, storeVars>>

\* the result of the invoker: not found, no text, or the summary of the
\* first search result
SummarizeReturns ==
  /\ \/ summarize.pc = "searched" /\ summarize.searchResults # <<>>
     \/ summarize.pc = "searchedByKeyword"
  /\ LET found == summarize.searchResults
     IN  summarize' = [summarize EXCEPT
           !.result = IF found = <<>>
                      THEN [success |-> FALSE, message |-> "notFound",
                            document |-> NoDocument]
                      ELSE IF found[1].text = <<>>
                      THEN [success |-> FALSE, message |-> "noText",
                            document |-> found[1].id]
                      ELSE [success |-> TRUE, message |-> "summary",
                            document |-> found[1].id],
           !.pc = "returned"]
  /\ UNCHANGED <<cacheFile, listing>>
  /\ UNCHANGED <<agentVars, syncVars, storeVars>>

\* a search or the summary request fails: the invoker throws
SummarizeThrows ==
  /\ summarize.pc \in {"start", "searched", "searchedByKeyword"}
  /\ summarize' = [summarize EXCEPT !.pc = "threw"]
  /\ UNCHANGED <<cacheFile, listing>>
  /\ UNCHANGED <<agentVars, syncVars, storeVars>>

SummarizeNext ==
  \/ SummarizeExactSearch
  \/ SummarizeKeywordSearch
  \/ SummarizeReturns
  \/ SummarizeThrows

\* ------------------------------------------- ingestion: the cache file
\* the records saveCache is called with
CacheRecords ==
  {[lastSyncTime |-> t, fileCount |-> n] : t \in 1..MaxTime, n \in 0..Len(FileOrder)}

\* the cache file: absent, or holding all or only a part of a record's text
NoFile == [exists |-> FALSE, record |-> DefaultCache, complete |-> FALSE]
WholeFile(record) == [exists |-> TRUE, record |-> record, complete |-> TRUE]
PartialFile(record) == [exists |-> TRUE, record |-> record, complete |-> FALSE]

IdleCacheFile ==
  [pc |-> "idle", content |-> NoFile, previous |-> NoFile, data |-> DefaultCache,
   loaded |-> DefaultCache]

CacheFileInit ==
  cacheFile \in {[IdleCacheFile EXCEPT !.pc = "start", !.content = f, !.previous = f,
                                       !.data = d] :
                   f \in {NoFile} \cup {WholeFile(r) : r \in CacheRecords},
                   d \in CacheRecords}

\* loadCache: the parsed record, or the default when the file is absent or
\* JSON.parse throws
LoadCacheOf(content) ==
  IF content.exists /\ content.complete THEN content.record ELSE DefaultCache

\* writeFileSync opens the cache file itself for writing: it is emptied
SaveCacheOpens ==
  /\ cacheFile.pc = "start"
  /\ cacheFile' = [cacheFile EXCEPT !.content = PartialFile(cacheFile.data),
                                    !.pc = "writing"]
  /\ UNCHANGED <<summarize, listing>>
  /\ UNCHANGED <<agentVars, syncVars, storeVars>>

\* the text of the record is written out
SaveCacheWrites ==
  /\ cacheFile.pc = "writing"
  /\ cacheFile' = [cacheFile EXCEPT !.content = WholeFile(cacheFile.data),
                                    !.pc = "saved"]
  /\ UNCHANGED <<summarize, listing>>
  /\ UNCHANGED <<agentVars, syncVars, storeVars>>

\* the write fails part-way (disk full): the error is logged and swallowed
SaveCacheFails ==
  /\ cacheFile.pc = "writing"
  /\ cacheFile' = [cacheFile EXCEPT !.pc = "saved"]
  /\ UNCHANGED <<summarize, listing>>
  /\ UNCHANGED <<agentVars, syncVars, storeVars>>

\* the process dies in the middle of saveCache
Crash ==
  /\ cacheFile.pc = "writing"
  /\ cacheFile' = [cacheFile EXCEPT !.pc = "crashed"]
  /\ UNCHANGED <<summarize, listing>>
  /\ UNCHANGED <<agentVars, syncVars, storeVars>>

\* a later loadCache
LoadCache ==
  /\ cacheFile.pc \in {"saved", "crashed"}
  /\ cacheFile' = [cacheFile EXCEPT !.loaded = LoadCacheOf(cacheFile.content),
                                    !.pc = "loaded"]
  /\ UNCHANGED <<summarize, listing>>
  /\ UNCHANGED <<agentVars, syncVars, storeVars>>

CacheFileNext ==
  \/ SaveCacheOpens
  \/ SaveCacheWrites
  \/ SaveCacheFails
  \/ Crash
  \/ LoadCache

\* ------------------------------------ drive: listAllFilesIteratively
\* largest maxFolders argument explored
MaxFolderLimit == 3

\* the folders of the drive, in the order a listing returns them
FolderOrder == <<"root", "A", "B">>
Folders == {FolderOrder[i] : i \in 1..Len(FolderOrder)}

\* the folder graphs: for each folder the folders it holds; a folder can be
\* held by several folders and by a folder below itself
FolderGraphs == [Folders -> SUBSET Folders]

IdleListing ==
  [pc |-> "idle", graph |-> [f \in Folders |-> {}], maxFolders |-> 0,
   folderQueue |-> <<>>, processedFolders |-> {}, allFiles |-> <<>>,
   currentFolder |-> [id |-> "root", path |-> <<>>], apiCalls |-> <<>>,
   failed |-> {}]

ListingInit ==
  listing \in {[IdleListing EXCEPT !.pc = "loop", !.graph = g, !.maxFolders = m,
                                   !.folderQueue = <<[id |-> "root", path |-> <<>>]>>] :
                 g \in FolderGraphs, m \in 1..MaxFolderLimit}

\* a visited-set test that never finds the folder
AlreadyProcessedNever(processed, id) == FALSE

\* processedFolders.has(currentFolderId)
AlreadyProcessed(processed, id) == id \in processed

\* the loop ends: the queue is empty or the folder limit is reached
ListingEnds ==
  /\ listing.pc = "loop"
  /\ \/ listing.folderQueue = <<>>
     \/ Cardinality(listing.processedFolders) >= listing.maxFolders
  /\ listing' = [listing EXCEPT !.pc = "returned"]
  /\ UNCHANGED <<summarize, cacheFile>>
  /\ UNCHANGED <<agentVars, syncVars, storeVars>>

\* the next queue entry is taken; a processed folder is skipped, another is
\* marked and its listing requested
ListingShifts ==
  /\ listing.pc = "loop"
  /\ listing.folderQueue # <<>>
  /\ Cardinality(listing.processedFolders) < listing.maxFolders
  /\ LET entry == Head(listing.folderQueue)
     IN  IF AlreadyProcessed(listing.processedFolders, entry.id)
         THEN listing' = [listing EXCEPT !.folderQueue = Tail(@)]
         ELSE listing' = [listing EXCEPT
                !.folderQueue = Tail(@),
                !.processedFolders = @ \cup {entry.id},
                !.currentFolder = entry,
                !.apiCalls = Append(@, entry.id),
                !.pc = "listingFolder"]
  /\ UNCHANGED <<summarize, cacheFile>>
  /\ UNCHANGED <<agentVars, syncVars, storeVars>>

\* the items of the folder arrive: folders are queued, files collected
ListingGotItems ==
  /\ listing.pc = "listingFolder"
  /\ LET cur == listing.currentFolder
         subs == SelectSeq(FolderOrder, LAMBDA f : f \in listing.graph[cur.id])
     IN  listing' = [listing EXCEPT
           !.folderQueue = @ \o [i \in 1..Len(subs) |->
                                   [id |-> subs[i], path |-> Append(cur.path, subs[i])]],
           !.allFiles = Append(@, [id |-> cur.id, folderPath |-> cur.path]),
           !.pc = "loop"]
  /\ UNCHANGED <<summarize, cacheFile>>
  /\ UNCHANGED <<agentVars, syncVars, storeVars>>

\* the listing of the folder fails: logged, the loop goes on
ListingFolderFails ==
  /\ listing.pc = "listingFolder"
  /\ listing' = [listing EXCEPT !.failed = @ \cup {listing.currentFolder.id},
                                !.pc = "loop"]
  /\ UNCHANGED <<summarize, cacheFile>>
  /\ UNCHANGED <<agentVars, syncVars, storeVars>>

ListingNext ==
  \/ ListingEnds
  \/ ListingShifts
  \/ ListingGotItems
  \/ ListingFolderFails

\* ------------------------------------------ vector store: one search call
\* largest result count asked for
MaxResults == 2

MimeTypes == {"document", "spreadsheet", "presentation", "pdf"}

\* metadata.googleLink of a document stored without one
NoLink == [kind |-> "none", id |-> 0]

\* https://drive.google.com/file/d/${id}
FileLink(id) == [kind |-> "file", id |-> id]

\* the link the ingestion stores with a document
GenerateGoogleLink(fileId, mimeType) ==
  IF mimeType \in {"document", "spreadsheet", "presentation"}
  THEN [kind |-> mimeType, id |-> fileId]
  ELSE FileLink(fileId)

\* the collections a search runs on, each in the order of distance to the
\* query: any texts under the metadata the ingestion writes, and any
\* metadata under one text
SearchCollections(maxDocs) ==
  LET textBodies == [text : Texts, distance : 0..MaxDistance,
                     mimeType : {"pdf"}, stored : {TRUE}]
      linkBodies == [text : {<<Word("a", "")>>}, distance : 0..MaxDistance,
                     mimeType : MimeTypes, stored : BOOLEAN]
      ordered(bodies, k) == {c \in [1..k -> bodies] :
                               \A i \in 1..(k - 1) : c[i].distance <= c[i + 1].distance}
      docs(c) == [i \in DOMAIN c |->
                    [id |-> i, text |-> c[i].text, distance |-> c[i].distance,
                     metadata |->
                       [mimeType |-> c[i].mimeType,
                        googleLink |-> IF c[i].stored
                                       THEN GenerateGoogleLink(i, c[i].mimeType)
                                       ELSE NoLink]]]
  IN  UNION {{docs(c) : c \in ordered(textBodies, k) \cup ordered(linkBodies, k)} :
               k \in 0..maxDocs}

\* one formatted row: the stored link, or the file link when none is stored
FormatRow(doc) ==
  [id |-> doc.id, text |-> doc.text, metadata |-> doc.metadata,
   distance |-> doc.distance,
   googleLink |-> IF doc.metadata.googleLink # NoLink
                  THEN doc.metadata.googleLink
                  ELSE FileLink(doc.id)]

FormatRows(docs) == [i \in DOMAIN docs |-> FormatRow(docs[i])]

IdleSearching ==
  [pc |-> "idle", collection |-> <<>>, nResults |-> 0, keyword |-> NoKeyword,
   maxDistance |-> NoDistance, rows |-> <<>>]

\* a call of search with any result count, with or without a keyword and a
\* largest distance
SearchingInit ==
  \E coll \in SearchCollections(MaxDocs), n \in 1..MaxResults,
     keyword \in {NoKeyword, Word("a", "")},
     maxDistance \in {NoDistance} \cup 0..MaxDistance :
    searching = [pc |-> "called", collection |-> coll, nResults |-> n,
                 keyword |-> keyword, maxDistance |-> maxDistance, rows |-> <<>>]

\* the query returns; the rows are formatted, filtered, gated and cut
SearchReturns ==
  /\ searching.pc = "called"
  /\ searching' = [searching EXCEPT
        !.pc = "returned",
        !.rows = Search(FormatRows(searching.collection), searching.nResults,
                        searching.keyword, searching.maxDistance, NoFilter)]
  /\ UNCHANGED <<collectionOps, fileTask>>
  /\ UNCHANGED <<agentVars, syncVars, summarize, cacheFile, listing>>

\* the embedding or the query throws: search throws an AppError
SearchThrows ==
  /\ searching.pc = "called"
  /\ searching' = [searching EXCEPT !.pc = "failed"]
  /\ UNCHANGED <<collectionOps, fileTask>>
  /\ UNCHANGED <<agentVars, syncVars, summarize, cacheFile, listing>>

SearchingNext ==
  \/ SearchReturns
  \/ SearchThrows

\* ---------------------- vector store: addMany, getAll, reset and getStats
\* the documents of one addMany call: distinct ids, each with the
\* modifiedTime that stands for its text and metadata
Batches ==
  {Listing(d) : d \in [Files -> 0..MaxTime]} \ {<<>>}

\* collection.add of the documents of one call
RECURSIVE AddedAll(_, _)
AddedAll(docs, documents) ==
  IF documents = <<>> THEN docs
  ELSE AddedAll(Added(docs, Head(documents)), Tail(documents))

\* collection.get: every stored document, once
GetAll(docs) == Listing(docs)

\* collection.count
Count(docs) == Cardinality({f \in Files : docs[f] # Absent})

IdleCollectionOps ==
  [pc |-> "idle", docs |-> [f \in Files |-> Absent], documents |-> <<>>,
   all |-> <<>>, documentCount |-> NoCount]

\* a call of addMany with any batch, or of reset, on any collection
CollectionOpsInit ==
  \E docs \in [Files -> 0..MaxTime] :
    \/ \E documents \in Batches :
         collectionOps = [IdleCollectionOps EXCEPT !.pc = "addMany", !.docs = docs,
                                                   !.documents = documents]
    \/ collectionOps = [IdleCollectionOps EXCEPT !.pc = "reset", !.docs = docs]

\* addMany returns and getAll is called
AddManyReturns ==
  /\ collectionOps.pc = "addMany"
  /\ collectionOps' = [collectionOps EXCEPT
        !.pc = "added",
        !.docs = AddedAll(collectionOps.docs, collectionOps.documents)]
  /\ UNCHANGED <<searching, fileTask>>
  /\ UNCHANGED <<agentVars, syncVars, summarize, cacheFile, listing>>

\* an embedding or collection.add fails: addMany throws an AppError
AddManyThrows ==
  /\ collectionOps.pc = "addMany"
  /\ collectionOps' = [collectionOps EXCEPT !.pc = "addFailed"]
  /\ UNCHANGED <<searching, fileTask>>
  /\ UNCHANGED <<agentVars, syncVars, summarize, cacheFile, listing>>

\* getAll returns the documents of the collection
GetAllReturns ==
  /\ collectionOps.pc = "added"
  /\ collectionOps' = [collectionOps EXCEPT
        !.pc = "read", !.all = GetAll(collectionOps.docs)]
  /\ UNCHANGED <<searching, fileTask>>
  /\ UNCHANGED <<agentVars, syncVars, summarize, cacheFile, listing>>

\* reset: initialize connects to the collection, then createCollection is
\* called with the name of that collection and is rejected; nothing is
\* deleted and reset throws an AppError
ResetThrows ==
  /\ collectionOps.pc = "reset"
  /\ collectionOps' = [collectionOps EXCEPT !.pc = "resetFailed"]
  /\ UNCHANGED <<searching, fileTask>>
  /\ UNCHANGED <<agentVars, syncVars, summarize, cacheFile, listing>>

\* the getStats that follows the reset
GetStatsReturns ==
  /\ collectionOps.pc = "resetFailed"
  /\ collectionOps' = [collectionOps EXCEPT
        !.pc = "counted", !.documentCount = Count(collectionOps.docs)]
  /\ UNCHANGED <<searching, fileTask>>
  /\ UNCHANGED <<agentVars, syncVars, summarize, cacheFile, listing>>

CollectionOpsNext ==
  \/ AddManyReturns
  \/ AddManyThrows
  \/ GetAllReturns
  \/ ResetThrows
  \/ GetStatsReturns

\* ------------------------------- ingestion: the temp file of each file
\* most files of one batch
MaxBatch == 2

\* the kinds of file the per-file code tells apart: a native spreadsheet
\* (read through the sheets API first), a text file (whose extraction may
\* throw) and the others (whose extraction returns '' on an error)
FileKinds == {"spreadsheet", "text", "other"}

\* the batches: the files are numbered in their order
FileBatches ==
  UNION {{[i \in 1..k |-> [id |-> i, kind |-> kinds[i]]] : kinds \in [1..k -> FileKinds]} :
           k \in 1..MaxBatch}

NoTask == [id |-> 0, kind |-> "none"]

IdleFileTask ==
  [pc |-> "idle", batch |-> <<>>, file |-> NoTask, text |-> FALSE,
   tmp |-> {}, handled |-> {}, failedCount |-> 0, skippedCount |-> 0,
   processedCount |-> 0]

\* the loop over a batch starts on an empty temp directory
FileTaskInit ==
  \E batch \in FileBatches :
    fileTask = [IdleFileTask EXCEPT !.pc = "next", !.batch = batch]

\* the per-file catch block: it counts the failure and removes nothing
CaughtFile(task) ==
  [task EXCEPT !.pc = "next", !.failedCount = @ + 1,
               !.handled = @ \cup {task.file.id}]

\* the next file of the batch is started, or the batch is over
FileStarts ==
  /\ fileTask.pc = "next"
  /\ IF fileTask.batch = <<>>
     THEN fileTask' = [fileTask EXCEPT !.pc = "done", !.file = NoTask]
     ELSE LET file == Head(fileTask.batch)
          IN  fileTask' = [fileTask EXCEPT
                !.batch = Tail(fileTask.batch), !.file = file, !.text = FALSE,
                !.pc = IF file.kind = "spreadsheet" THEN "sheetsApi" ELSE "download"]
  /\ UNCHANGED <<searching, collectionOps>>
  /\ UNCHANGED <<agentVars, syncVars, summarize, cacheFile, listing>>

\* a native spreadsheet: extractText(null, ...) reads it through the
\* sheets API and returns its text, or '' when the API fails
SheetsApiReturns ==
  /\ fileTask.pc = "sheetsApi"
  /\ \E text \in BOOLEAN :
       fileTask' = [fileTask EXCEPT !.text = text,
                                    !.pc = IF text THEN "index" ELSE "download"]
  /\ UNCHANGED <<searching, collectionOps>>
  /\ UNCHANGED <<agentVars, syncVars, summarize, cacheFile, listing>>

\* downloadFile returns; the write stream it opened has created the file
\* or has not; a file that is not a spreadsheet and is missing is counted
\* as failed and the loop continues
DownloadReturns ==
  /\ fileTask.pc = "download"
  /\ \E exists \in BOOLEAN :
       LET tmp == IF exists THEN fileTask.tmp \cup {fileTask.file.id} ELSE fileTask.tmp
       IN  fileTask' =
             IF exists
             THEN [fileTask EXCEPT !.tmp = tmp, !.pc = "extract"]
             ELSE IF fileTask.file.kind = "spreadsheet"
             THEN [fileTask EXCEPT !.pc = "index"]
             ELSE [fileTask EXCEPT !.pc = "next", !.failedCount = @ + 1,
                                   !.handled = @ \cup {fileTask.file.id}]
  /\ UNCHANGED <<searching, collectionOps>>
  /\ UNCHANGED <<agentVars, syncVars, summarize, cacheFile, listing>>

\* the export or the download is rejected after the write stream was
\* opened: the file it created, if it did, stays
DownloadThrows ==
  /\ fileTask.pc = "download"
  /\ \E exists \in BOOLEAN :
       fileTask' = CaughtFile([fileTask EXCEPT
         !.tmp = IF exists THEN @ \cup {fileTask.file.id} ELSE @])
  /\ UNCHANGED <<searching, collectionOps>>
  /\ UNCHANGED <<agentVars, syncVars, summarize, cacheFile, listing>>

\* extractText returns the text of the temp file, or ''
ExtractReturns ==
  /\ fileTask.pc = "extract"
  /\ \E text \in BOOLEAN :
       fileTask' = [fileTask EXCEPT !.text = text, !.pc = "index"]
  /\ UNCHANGED <<searching, collectionOps>>
  /\ UNCHANGED <<agentVars, syncVars, summarize, cacheFile, listing>>

\* reading a text file throws
ExtractThrows ==
  /\ fileTask.pc = "extract"
  /\ fileTask.file.kind = "text"
  /\ fileTask' = CaughtFile(fileTask)
  /\ UNCHANGED <<searching, collectionOps>>
  /\ UNCHANGED <<agentVars, syncVars, summarize, cacheFile, listing>>

\* a text is indexed by addMany, an empty one is skipped; then the temp
\* file is removed if it exists
IndexReturns ==
  /\ fileTask.pc = "index"
  /\ fileTask' = [fileTask EXCEPT
        !.pc = "next",
        !.processedCount = IF fileTask.text THEN @ + 1 ELSE @,
        !.skippedCount = IF fileTask.text THEN @ ELSE @ + 1,
        !.tmp = @ \ {fileTask.file.id},
        !.handled = @ \cup {fileTask.file.id}]
  /\ UNCHANGED <<searching, collectionOps>>
  /\ UNCHANGED <<agentVars, syncVars, summarize, cacheFile, listing>>

\* addMany throws: the catch block is entered before the removal
IndexThrows ==
  /\ fileTask.pc = "index"
  /\ fileTask.text
  /\ fileTask' = CaughtFile(fileTask)
  /\ UNCHANGED <<searching, collectionOps>>
  /\ UNCHANGED <<agentVars, syncVars, summarize, cacheFile, listing>>

\* the removal of the temp file throws, after the file was counted
CleanupThrows ==
  /\ fileTask.pc = "index"
  /\ fileTask.file.id \in fileTask.tmp
  /\ fileTask' = CaughtFile([fileTask EXCEPT
        !.processedCount = IF fileTask.text THEN @ + 1 ELSE @,
        !.skippedCount = IF fileTask.text THEN @ ELSE @ + 1])
  /\ UNCHANGED <<searching, collectionOps>>
  /\ UNCHANGED <<agentVars, syncVars, summarize, cacheFile, listing>>

FileTaskNext ==
  \/ FileStarts
  \/ SheetsApiReturns
  \/ DownloadReturns
  \/ DownloadThrows
  \/ ExtractReturns
  \/ ExtractThrows
  \/ IndexReturns
  \/ IndexThrows
  \/ CleanupThrows

StoreIdle ==
  /\ searching = IdleSearching
  /\ collectionOps = IdleCollectionOps
  /\ fileTask = IdleFileTask

AuxIdle ==
  /\ summarize = IdleSummarize
  /\ cacheFile = IdleCacheFile
  /\ listing = IdleListing
  /\ StoreIdle

AgentNext ==
  \/ Validate
  \/ CallModel
  \/ MaxIterationsReached
  \/ ModelThrows
  \/ ModelReturns
  \/ StartTool
  \/ ToolReturns
  \/ ToolThrows


Init == AgentInit /\ SyncIdle /\ AuxIdle

Next == AgentNext

Spec == Init /\ [][Next]_vars

SyncSpecInit == AgentIdle /\ SyncInit /\ AuxIdle

SpecSync == SyncSpecInit /\ [][SyncNext]_vars

\* overlapping runs, started on a store that holds every file at one time or none
OverlapInit ==
  /\ SyncSpecInit
  /\ store \in {[f \in Files |-> t] : t \in 0..MaxTime}

SpecOverlap == OverlapInit /\ [][OverlapNext]_vars

\* the answer building of executeTask over any recorded tool calls: the
\* runs start where the model call of the only iteration is awaited
\* most recorded tool calls
MaxRecorded == 2

\* the entries executeTask can have recorded in toolCalls
RecordedCalls ==
  UNION {{[tool |-> n, parameters |-> "complete", result |-> r] :
            r \in ToolResults(n)} : n \in ToolNames}

AnswerInit ==
  /\ pc = "calling"
  /\ userPromptValid = TRUE
  /\ maxIterations = 1
  /\ iterations = 1
  /\ toolCalls \in {<<>>} \cup SeqsUpTo(RecordedCalls, MaxRecorded)
  /\ conversationHistory =
       <<SystemTurn, UserTurn>> \o
       [i \in 1..Len(toolCalls) |-> ResultTurn(toolCalls[i].tool, toolCalls[i].result)]
  /\ validToolCalls = <<>>
  /\ current = NoCall
  /\ modelCalls = <<[iteration |-> 1, forceToolUse |-> ForceTools(toolCalls),
                     mode |-> FunctionCallingMode(TRUE, ForceTools(toolCalls))]>>
  /\ responses = <<>>
  /\ events = <<<<"modelStart", 1, ModelCall>>>>
  /\ result = NoResult
  /\ error = NoError
  /\ cancelled = FALSE
  /\ incompleteLeft = 0
  /\ SyncIdle /\ AuxIdle

AnswerNext ==
  \/ ModelReturns
  \/ ModelThrows

SpecAnswer == AnswerInit /\ [][AnswerNext]_vars

\* executeTask with a caller that may give up
CancelNext ==
  \/ Validate
  \/ CallModel
  \/ MaxIterationsReached
  \/ ModelThrows
  \/ ModelReturns
  \/ StartTool
  \/ ToolReturns
  \/ ToolThrows
  \/ Cancel

SpecCancel == Init /\ [][CancelNext]_vars

\* executeTask with a model that may emit calls lacking required parameters
SchemaInit ==
  /\ AgentStart /\ incompleteLeft = MaxIncomplete
  /\ SyncIdle /\ AuxIdle

SpecSchema == SchemaInit /\ [][Next]_vars

\* one call of the summarizeDocument invoker on any collection
SummarizeSpecInit ==
  /\ AgentIdle /\ SyncIdle /\ StoreIdle
  /\ SummarizeInit
  /\ cacheFile = IdleCacheFile
  /\ listing = IdleListing

SpecSummarize == SummarizeSpecInit /\ [][SummarizeNext]_vars

\* one saveCache over any earlier cache file, then a loadCache
CacheFileSpecInit ==
  /\ AgentIdle /\ SyncIdle /\ StoreIdle
  /\ CacheFileInit
  /\ summarize = IdleSummarize
  /\ listing = IdleListing

SpecCacheFile == CacheFileSpecInit /\ [][CacheFileNext]_vars

\* one call of listAllFilesIteratively on any folder graph; a requested
\* folder listing returns or fails
ListingSpecInit ==
  /\ AgentIdle /\ SyncIdle /\ StoreIdle
  /\ ListingInit
  /\ summarize = IdleSummarize
  /\ cacheFile = IdleCacheFile

SpecListing == ListingSpecInit /\ [][ListingNext]_vars /\ WF_vars(ListingNext)

SubIdle ==
  /\ summarize = IdleSummarize
  /\ cacheFile = IdleCacheFile
  /\ listing = IdleListing

\* one call of search on any collection
SearchSpecInit ==
  /\ AgentIdle /\ SyncIdle /\ SubIdle
  /\ SearchingInit
  /\ collectionOps = IdleCollectionOps
  /\ fileTask = IdleFileTask

SpecSearch == SearchSpecInit /\ [][SearchingNext]_vars

\* one addMany with its getAll, or one reset with its getStats
CollectionSpecInit ==
  /\ AgentIdle /\ SyncIdle /\ SubIdle
  /\ CollectionOpsInit
  /\ searching = IdleSearching
  /\ fileTask = IdleFileTask

SpecCollection == CollectionSpecInit /\ [][CollectionOpsNext]_vars

\* the per-file steps of one batch
FileTaskSpecInit ==
  /\ AgentIdle /\ SyncIdle /\ SubIdle
  /\ FileTaskInit
  /\ searching = IdleSearching
  /\ collectionOps = IdleCollectionOps

SpecFileTask == FileTaskSpecInit /\ [][FileTaskNext]_vars

\* the runs of one invoker on a store that mirrors the drive, where the
\* listing may miss the files of folders that failed or were cut off; no
\* file is ever found updated, so no deleteMany is left unawaited
PartialInit ==
  /\ SyncSpecInit
  /\ store = drive

PartialNext ==
  \/ Begin("cron")
  \/ Listed("cron")
  \/ ListedPartly("cron")
  \/ GetAllThrows("cron")
  \/ GotAll("cron")
  \/ DeleteReturns("cron")
  \/ DeleteThrows("cron")
  \/ ProcessFile("cron")

SpecPartial == PartialInit /\ [][PartialNext]_vars

\* ------------------------------------------------------------- the claims
FunctionTurns == SelectSeq(conversationHistory, LAMBDA t : t.role = "function")

ToolStarts(k) ==
  SelectSeq(events, LAMBDA e : e[1] = "toolStart" /\ e[2] = k)

IsPrefix(a, b) ==
  /\ Len(a) <= Len(b)
  /\ \A i \in 1..Len(a) : a[i] = b[i]

\* C1: the model call of iteration 1 is made with forced tool use, and a
\* success result is returned only after an earlier model response of the
\* same task contained tool calls (never from iteration 1).
C1_Claim ==
  /\ Len(modelCalls) >= 1 =>
       /\ modelCalls[1].forceToolUse
       /\ modelCalls[1].mode = "ANY"
  /\ result.success =>
       /\ result.iterations > 1
       /\ \E i \in 1..(Len(responses) - 1) : Len(responses[i].toolCalls) > 0

\* C2: the model is called in forced-tool mode if and only if the iteration
\* is the first, in the forceToolUse flag the orchestrator passes and in the
\* tool-calling mode chatWithHistory configures.
C2_Claim ==
  \A k \in 1..Len(modelCalls) :
     /\ modelCalls[k].iteration = k
     /\ modelCalls[k].forceToolUse <=> (k = 1)
     /\ (modelCalls[k].mode = "ANY") <=> (k = 1)

\* C3: a run that returns success returns iterations <= maxIterations, and
\* the model response of its last iteration contained final text.
C3_Theorem ==
  result.success =>
     /\ result.iterations <= maxIterations
     /\ result.iterations = Len(responses)
     /\ responses[Len(responses)].text = "final text"
     /\ responses[Len(responses)].toolCalls = <<>>

\* a success on the last iteration the bound allows, after tool calls
C3_Witness ==
  /\ result.success
  /\ result.iterations = maxIterations
  /\ maxIterations >= 2
  /\ Len(result.toolCalls) > 0

\* C8: when a tool invoker throws, the run does not fail: exactly one
\* tool-result turn carrying the error under that tool's name is appended,
\* the remaining tool calls of the response stay to be executed, and when
\* none remains control returns to the head of the loop, where the next
\* model call is made.
C8_Theorem ==
  [][ (events' # events /\ events'[Len(events')][1] = "toolThrow") =>
        /\ events'[Len(events')][3] = current
        /\ conversationHistory' =
             conversationHistory \o
               <<[role |-> "function", name |-> current.name,
                  content |-> [payload |-> <<"error", "message">>, instruction |-> ""]]>>
        /\ toolCalls' = toolCalls
        /\ validToolCalls' = validToolCalls
        /\ error' = NoError
        /\ pc' = IF validToolCalls # <<>> THEN "tools" ELSE "loop"
        /\ (validToolCalls # <<>> => ENABLED StartTool)'
        /\ (validToolCalls = <<>> /\ iterations < maxIterations => ENABLED CallModel)'
    ]_vars

\* a tool threw, the next tool of the same response was started, and a later
\* model call was made
C8_Witness ==
  \E i \in 1..Len(events) : \E j \in 1..Len(events) :
     /\ i + 1 < j
     /\ events[i][1] = "toolThrow"
     /\ events[i + 1][1] = "toolStart"
     /\ events[i + 1][2] = events[i][2]
     /\ events[j][1] = "modelStart"
     /\ events[j][2] = events[i][2] + 1

\* C9: every tool call invoked, whether its invoker succeeds or fails, is
\* recorded in toolCalls: the entries of toolCalls are, in order, the
\* tool-result turns of the conversation.
C9_Claim ==
  /\ Len(toolCalls) = Len(FunctionTurns)
  /\ \A i \in 1..Len(toolCalls) : toolCalls[i].tool = FunctionTurns[i].name

\* C10: the tool calls of one response are invoked one at a time in the
\* order the model emitted them, and every invocation of iteration k has
\* finished before the model call of iteration k+1 starts.
C10_Theorem ==
  /\ \A i \in 1..Len(events) :
       events[i][1] = "toolStart" /\ i < Len(events) =>
          /\ events[i + 1][1] \in {"toolEnd", "toolThrow"}
          /\ events[i + 1][2] = events[i][2]
          /\ events[i + 1][3] = events[i][3]
  /\ \A k \in 1..Len(responses) :
       IsPrefix([i \in 1..Len(ToolStarts(k)) |-> ToolStarts(k)[i][3]],
                FilterKnown(responses[k].toolCalls))
  /\ \A i \in 1..Len(events) :
       events[i][1] = "modelStart" /\ events[i][2] > 1 =>
          /\ Len(ToolStarts(events[i][2] - 1)) =
               Len(FilterKnown(responses[events[i][2] - 1].toolCalls))
          /\ \A j \in 1..Len(events) :
               events[j][1] \in {"toolStart", "toolEnd", "toolThrow"}
                 /\ events[j][2] < events[i][2] => j < i

\* two calls of the first response were invoked and a call of the second
\* response has been started
C10_Witness ==
  /\ Len(responses) >= 2
  /\ Len(ToolStarts(1)) = 2
  /\ ToolStarts(1)[1][3] # ToolStarts(1)[2][3]
  /\ Len(ToolStarts(2)) >= 1

\* the stored documents are exactly the listed files, at their modifiedTime
Mirrors(docs, driveFiles) ==
  \A f \in Files :
     IF f \in ListedIds(driveFiles)
     THEN \E i \in 1..Len(driveFiles) :
            driveFiles[i].id = f /\ driveFiles[i].modifiedTime = docs[f]
     ELSE docs[f] = Absent

C5_Claim ==
  \A r \in Runners :
     run[r].pc = "returned" =>
        \A f \in Files :
           store[f] # Absent =>
              \E i \in 1..Len(run[r].driveFiles) :
                 /\ run[r].driveFiles[i].id = f
                 /\ run[r].driveFiles[i].modifiedTime = store[f]

\* C6: the drive gained F, lost G and H was modified; every file to process
\* was indexed without error; then the store holds exactly the listed files.
C6_Claim ==
  \A r \in Runners :
     ( /\ run[r].pc = "returned"
       /\ pendingDeletes = {}
       /\ ListedIds(ToAdd(run[r].driveFiles, run[r].existingDocs)) = {"F"}
       /\ ListedIds(ToUpdate(run[r].driveFiles, run[r].existingDocs)) = {"H"}
       /\ ToDelete(run[r].driveFiles, run[r].existingDocs) = {"G"}
       /\ run[r].processedCount = 2
       /\ run[r].failedCount = 0
       /\ run[r].skippedCount = 0 )
     => Mirrors(store, run[r].driveFiles)

\* C7: at most one run is in progress at any time.
C7_Claim ==
  Cardinality({r \in Runners : InProgress(r)}) <= 1

\* the calls of a response whose name is registered
KnownCalls(calls) == SelectSeq(calls, LAMBDA c : c.name \in ToolNames)

MaxIterationsMessage == "Task too complex, reached maximum tool usage limit"

\* C11: a tool call whose name is not registered is never invoked and adds
\* no turn and no toolCalls entry; the registered calls of the same response
\* are all invoked before the next model call; the iteration is counted like
\* any other, and right after it the run fails only by exhausting
\* maxIterations.
C11_Theorem ==
  /\ current.name # UnknownTool
  /\ \A i \in 1..Len(events) : events[i][3].name # UnknownTool
  /\ \A i \in 1..Len(conversationHistory) : conversationHistory[i].name # UnknownTool
  /\ \A i \in 1..Len(toolCalls) : toolCalls[i].tool # UnknownTool
  /\ iterations = Len(modelCalls)
  /\ \A k \in 1..Len(responses) :
       (\E i \in 1..Len(responses[k].toolCalls) :
           responses[k].toolCalls[i].name = UnknownTool) =>
          /\ Len(modelCalls) > k =>
               [i \in 1..Len(ToolStarts(k)) |-> ToolStarts(k)[i][3]]
                 = KnownCalls(responses[k].toolCalls)
          /\ (pc = "failed" /\ Len(modelCalls) = k) =>
               /\ error.message = MaxIterationsMessage
               /\ iterations = maxIterations
          /\ (pc = "loop" /\ Len(modelCalls) = k) => error = NoError

\* the first response named an unknown tool and then a registered one: only
\* the second was invoked, and the model was called again
C11_Witness ==
  /\ Len(modelCalls) >= 2
  /\ Len(responses[1].toolCalls) = 2
  /\ responses[1].toolCalls[1].name = UnknownTool
  /\ responses[1].toolCalls[2].name \in ToolNames
  /\ Len(ToolStarts(1)) = 1
  /\ modelCalls[2].iteration = 2

\* C12: when each of the first maxIterations model responses holds tool
\* calls, the run never returns success, makes exactly maxIterations model
\* calls, and once the calls of the last response are done it fails with the
\* maximum-iterations error.
C12_Theorem ==
  ( /\ Len(responses) = maxIterations
    /\ \A k \in 1..Len(responses) : Len(responses[k].toolCalls) > 0 )
  => /\ ~result.success
     /\ pc \in {"start", "loop", "tools", "failed"}
     /\ Len(modelCalls) = maxIterations
     /\ pc = "loop" => ENABLED MaxIterationsReached /\ ~ENABLED CallModel
     /\ pc = "failed" => \/ error.message = MaxIterationsMessage
                         \/ ~userPromptValid

\* maxIterations = 1 and a tool-call response on iteration 1: the run failed
\* with the maximum-iterations error after one model call
C12_Witness ==
  /\ maxIterations = 1
  /\ Len(responses) = 1
  /\ Len(responses[1].toolCalls) > 0
  /\ Len(modelCalls) = 1
  /\ pc = "failed"
  /\ error.message = MaxIterationsMessage

\* the other failures of executeTask
OtherFailures ==
  {AppError("Valid prompt is required", 400, "BAD_REQUEST"),
   AppError("Gemini API error", 500, "INTERNAL_ERROR"),
   AppError("Agent did not provide a response", 500, "INTERNAL_ERROR")}

\* C13: the error raised when maxIterations is exhausted carries a code that
\* no other failure of executeTask carries.
C13_Claim ==
  (pc = "failed" /\ error.message = MaxIterationsMessage) =>
     \A e \in OtherFailures : e.code # error.code

\* C14: on a final text response the answer is the model text followed by
\* what the first applicable case appends: the results of the searches that
\* returned some, else the summaries of the summarizeDocument calls that
\* succeeded, else the emails sent, else nothing.
C14_Theorem ==
  result.success =>
     LET calls == result.toolCalls
         some(tool) == {i \in 1..Len(calls) : calls[i].tool = tool}
     IN  /\ calls = toolCalls
         /\ result.answer.text = responses[Len(responses)].text
         /\ result.answer.appended =
              CASE (\E i \in some("searchDocuments") : calls[i].result.count > 0)
                     -> "searchResults"
                [] (\A i \in some("searchDocuments") : calls[i].result.count = 0)
                   /\ (\E i \in some("summarizeDocument") : calls[i].result.success)
                     -> "summaries"
                [] (\A i \in some("searchDocuments") : calls[i].result.count = 0)
                   /\ (\A i \in some("summarizeDocument") : ~calls[i].result.success)
                   /\ (\E i \in some("sendEmail") : calls[i].result.sentEmail)
                     -> "sentEmails"
                [] OTHER -> "nothing"

\* a summary and a sent email were recorded and no search result: the answer
\* carries the summaries
C14_Witness ==
  /\ result.success
  /\ \E i \in 1..Len(toolCalls) :
        toolCalls[i].tool = "summarizeDocument" /\ toolCalls[i].result.success
  /\ \E i \in 1..Len(toolCalls) : toolCalls[i].tool = "sendEmail"
  /\ result.answer.appended = "summaries"

\* C15: the document summarizeDocument selects is one stored under exactly
\* the requested name when there is one, else one whose text contains the
\* requested name without its extension, and when there is neither the
\* invoker returns success = false for a document not found.
C15_Claim ==
  summarize.pc = "returned" =>
     LET coll == summarize.collection
         exact == {i \in 1..Len(coll) : coll[i].name = summarize.documentName}
         partial == {i \in 1..Len(coll) :
                       KeywordCount(coll[i].text,
                                    StripExtension(summarize.documentName)) > 0}
     IN  IF exact # {}
         THEN \E i \in exact : summarize.result.document = coll[i].id
         ELSE IF partial # {}
         THEN \E i \in partial : summarize.result.document = coll[i].id
         ELSE summarize.result =
                [success |-> FALSE, message |-> "notFound", document |-> NoDocument]

\* C16: a tool invoker is only called with parameters that hold every
\* required parameter of the tool's schema.
C16_Claim ==
  /\ current.parameters # "missingRequired"
  /\ \A i \in 1..Len(events) :
        events[i][1] = "toolStart" => events[i][3].parameters = "complete"

\* C17: once the caller has cancelled, no model call and no tool call is
\* started, the run does not return success, and it ends with a
\* cancellation error.
C17_Claim ==
  cancelled =>
     /\ ~result.success
     /\ pc # "loop"
     /\ ~(pc = "tools" /\ current = NoCall)
     /\ pc = "failed" => error.code = "CANCELLED"

C19_Claim ==
  cacheFile.pc = "loaded" =>
     \/ cacheFile.loaded = cacheFile.data
     \/ cacheFile.loaded = LoadCacheOf(cacheFile.previous)

\* the listing never requests a folder twice nor more than maxFolders
\* folders, and what it returns is the files of the folders it listed
ListingSafe ==
  /\ \A i \in 1..Len(listing.apiCalls) : \A j \in 1..Len(listing.apiCalls) :
        listing.apiCalls[i] = listing.apiCalls[j] => i = j
  /\ listing.pc # "idle" => Len(listing.apiCalls) <= listing.maxFolders
  /\ listing.pc = "returned" =>
        /\ \A f \in Folders :
              (\E i \in 1..Len(listing.allFiles) : listing.allFiles[i].id = f)
                <=> (\E i \in 1..Len(listing.apiCalls) : listing.apiCalls[i] = f)
                      /\ f \notin listing.failed
        /\ \/ listing.folderQueue = <<>>
           \/ Cardinality(listing.processedFolders) = listing.maxFolders

\* C20: on every folder graph, cycles and shared folders included,
\* listAllFilesIteratively lists each folder at most once and at most
\* maxFolders folders, and it terminates, returning the files found so far
\* when the bound stops it.
C20_Theorem ==
  /\ []ListingSafe
  /\ <>(listing.pc = "returned")

\* a graph in which root and A hold each other: the listing returned at the
\* bound of two folders with entries still queued
C20_Witness ==
  /\ listing.pc = "returned"
  /\ "A" \in listing.graph["root"]
  /\ "root" \in listing.graph["A"]
  /\ listing.maxFolders = 2
  /\ listing.folderQueue # <<>>
  /\ Len(listing.allFiles) = 2

\* C21: the rows a search returns are in order: with a keyword, more
\* occurrences of the keyword first and, among equal counts, the smaller
\* distance first; without a keyword, the smaller distance first.
C21_Theorem ==
  searching.pc = "returned" =>
    LET rows == searching.rows
        count(i) == KeywordCount(rows[i].text, searching.keyword)
    IN  \A i \in 1..Len(rows) : \A j \in (i + 1)..Len(rows) :
          IF searching.keyword # NoKeyword
          THEN \/ count(i) > count(j)
               \/ count(i) = count(j) /\ rows[i].distance <= rows[j].distance
          ELSE rows[i].distance <= rows[j].distance

\* a keyword search returned a row with more occurrences ahead of a nearer row
C21_Witness ==
  /\ searching.pc = "returned"
  /\ searching.keyword # NoKeyword
  /\ Len(searching.rows) >= 2
  /\ KeywordCount(searching.rows[1].text, searching.keyword)
       > KeywordCount(searching.rows[2].text, searching.keyword)
  /\ searching.rows[1].distance > searching.rows[2].distance

\* C22: a search called with a largest distance returns no row farther
\* than it, with or without a keyword.
C22_Theorem ==
  (searching.pc = "returned" /\ searching.maxDistance # NoDistance) =>
    \A i \in 1..Len(searching.rows) :
       searching.rows[i].distance <= searching.maxDistance

\* a keyword search returned rows and left out a matching document that
\* was too far
C22_Witness ==
  /\ searching.pc = "returned"
  /\ searching.maxDistance # NoDistance
  /\ searching.keyword # NoKeyword
  /\ searching.rows # <<>>
  /\ \E i \in 1..Len(searching.collection) :
       /\ searching.collection[i].distance > searching.maxDistance
       /\ KeywordCount(searching.collection[i].text, searching.keyword) > 0

\* C23: a search called with a result count n returns at most n rows.
C23_Theorem ==
  searching.pc = "returned" => Len(searching.rows) <= searching.nResults

\* a keyword search found more matching documents than it was asked for
\* and returned exactly the count asked for
C23_Witness ==
  /\ searching.pc = "returned"
  /\ searching.keyword # NoKeyword
  /\ searching.maxDistance = NoDistance
  /\ Len(searching.rows) = searching.nResults
  /\ Len(SelectSeq(searching.collection,
                   LAMBDA d : KeywordCount(d.text, searching.keyword) > 0))
       > searching.nResults

\* C24: the googleLink of a returned row whose metadata holds no stored
\* link is the link the ingestion generates from the id and the mime type.
C24_Claim ==
  searching.pc = "returned" =>
    \A i \in 1..Len(searching.rows) :
       LET row == searching.rows[i]
       IN  row.metadata.googleLink = NoLink =>
             row.googleLink = GenerateGoogleLink(row.id, row.metadata.mimeType)

\* C25: after addMany returned, getAll holds every document of the call
\* exactly once, with the content of the call, also for an id that was
\* stored before.
C25_Claim ==
  collectionOps.pc = "read" =>
    \A i \in 1..Len(collectionOps.documents) :
       Len(SelectSeq(collectionOps.all,
                     LAMBDA d : d = collectionOps.documents[i])) = 1

\* C26: reset returns without an error and the getStats that follows it
\* reports no document.
C26_Claim ==
  /\ collectionOps.pc # "resetFailed"
  /\ collectionOps.pc = "counted" => collectionOps.documentCount = 0

\* C27: when the first addMany of a run has started, every deleteMany the
\* run issued has been carried out.
C27_Claim ==
  (run["cron"].runNo = 1 /\ run["cron"].addCalls > 0) => pendingDeletes = {}

\* C28: when the next file is started, or the batch is over, no temp file
\* of a file already handled exists.
C28_Claim ==
  fileTask.pc \in {"next", "done"} => fileTask.tmp \cap fileTask.handled = {}

\* C29: a document whose file is in the drive with the modifiedTime it was
\* stored with is never deleted from the store, also when the listing
\* misses files.
C29_Claim ==
  \A f \in Files : drive[f] # Absent => store[f] = drive[f]

\* C30: every conversation handed to chatWithHistory converts: no earlier
\* function turn holds content that JSON.parse rejects.
C30_Claim ==
  (pc = "loop" /\ LoopContinues(iterations, maxIterations)) =>
     HistoryConverts(conversationHistory)

====
